---- MODULE Spec2Model ----
(***************************************************************************)
(* Model of src/src/index.ts: the TradingStrategy class (series sort,      *)
(* RSI, EMA, MACD, Bollinger Bands, OBV, cross detection, the rule table   *)
(* of generateTradingSignal) and analyzeToken.                             *)
(*                                                                         *)
(* JavaScript numbers are modelled as exact values: a rational n/d, a      *)
(* rational plus or minus the square root of a rational (Math.sqrt), the   *)
(* infinities, NaN, and `undefined` (what an out-of-range array read       *)
(* yields).  Rounding of float64 is not modelled; every other step of the  *)
(* arithmetic (NaN propagation, comparisons with NaN/undefined being       *)
(* false, division by zero) follows the language.                          *)
(***************************************************************************)
EXTENDS Integers, Sequences, FiniteSets, TLC

VARIABLES
  pc,          \* position of the call being modelled
  input,       \* the observation list as the caller built it (never written)
  callerData,  \* the caller's array object, as the caller sees it now
  thisData,    \* TradingStrategy.data
  signal,      \* the StrategySignal returned by generateTradingSignal
  cross,       \* the record returned by getCrossAnalysis
  args,        \* arguments of the indicator routine / rule table under test
  out          \* its result

vars == <<pc, input, callerData, thisData, signal, cross, args, out>>

----------------------------------------------------------------------------
(* Numbers *)

RECURSIVE GCD(_, _)
GCD(a, b) == IF b = 0 THEN a ELSE GCD(b, a % b)

AbsI(x) == IF x < 0 THEN -x ELSE x
SgnI(x) == IF x < 0 THEN -1 ELSE IF x = 0 THEN 0 ELSE 1

\* A finite number: n/d + sgn(rn) * sqrt(|rn|/rd), in lowest terms.
Fin(n, d, rn, rd) ==
  LET g == GCD(AbsI(n), AbsI(d))
      h == GCD(AbsI(rn), AbsI(rd))
  IN  [k |-> "num", n |-> SgnI(d) * (n \div g), d |-> AbsI(d) \div g,
       rn |-> SgnI(rd) * (rn \div h), rd |-> AbsI(rd) \div h]

Rat(n, d) == Fin(n, d, 0, 1)
Num(n) == Rat(n, 1)
NaN == [k |-> "nan", n |-> 0, d |-> 1, rn |-> 0, rd |-> 1]
Undefined == [k |-> "undef", n |-> 0, d |-> 1, rn |-> 0, rd |-> 1]
Inf(s) == [k |-> "inf", n |-> s, d |-> 1, rn |-> 0, rd |-> 1]
Zero == Num(0)

\* ToNumber(undefined) is NaN.
ToNumber(a) == IF a.k = "undef" THEN NaN ELSE a

\* An operation the program never performs on these values (the sum or
\* product of two unrelated square roots) has no value here.
Unsupported == <<>>[1]

\* Largest r with r*r <= x, by bisection on lo..hi.
RECURSIVE ISqrtIn(_, _, _)
ISqrtIn(x, lo, hi) ==
  IF lo >= hi THEN lo
  ELSE LET mid == (lo + hi + 1) \div 2
       IN  IF mid <= x \div mid THEN ISqrtIn(x, mid, hi) ELSE ISqrtIn(x, lo, mid - 1)

ISqrt(x) == IF x = 0 THEN 0 ELSE ISqrtIn(x, 1, x)
IsSquare(x) == ISqrt(x) * ISqrt(x) = x

\* Sign of the finite number a.
Sign(a) ==
  LET q == SgnI(a.n)
      s == SgnI(a.rn)
  IN  IF s = 0 THEN q
      ELSE IF q = 0 \/ q = s THEN s
      ELSE \* opposite signs: compare (n/d)^2 with |rn|/rd
           LET l == a.n * a.n * a.rd
               r == AbsI(a.rn) * a.d * a.d
           IN  IF l > r THEN q ELSE IF l < r THEN s ELSE 0

Neg(a0) ==
  LET a == ToNumber(a0)
  IN  IF a.k = "nan" THEN NaN
      ELSE IF a.k = "inf" THEN Inf(-a.n)
      ELSE Fin(-a.n, a.d, -a.rn, a.rd)

\* The square-root part of the sum of two finite numbers.
RadAdd(a, b) ==
  IF a.rn = 0 THEN <<b.rn, b.rd>>
  ELSE IF b.rn = 0 THEN <<a.rn, a.rd>>
  ELSE IF a.rd = b.rd /\ a.rn = -b.rn THEN <<0, 1>>
  ELSE IF a.rd = b.rd /\ a.rn = b.rn THEN <<4 * a.rn, a.rd>>
  ELSE Unsupported

Add(a0, b0) ==
  LET a == ToNumber(a0)
      b == ToNumber(b0)
  IN  IF a.k = "nan" \/ b.k = "nan" THEN NaN
      ELSE IF a.k = "inf" /\ b.k = "inf" THEN (IF a.n = b.n THEN a ELSE NaN)
      ELSE IF a.k = "inf" THEN a
      ELSE IF b.k = "inf" THEN b
      ELSE LET g == GCD(a.d, b.d)
               r == RadAdd(a, b)
           IN  Fin(a.n * (b.d \div g) + b.n * (a.d \div g), (a.d \div g) * b.d,
                   r[1], r[2])

Sub(a, b) == Add(a, Neg(b))

\* Product of a finite number a and a rational q.
MulQ(a, q) ==
  LET g1 == GCD(AbsI(a.n), q.d)
      g2 == GCD(AbsI(q.n), a.d)
      h1 == GCD(AbsI(a.rn), q.d * q.d)
      h2 == GCD(q.n * q.n, a.rd)
  IN  Fin((a.n \div g1) * (q.n \div g2), (a.d \div g2) * (q.d \div g1),
          IF a.rn = 0 THEN 0
          ELSE SgnI(q.n) * (a.rn \div h1) * ((q.n * q.n) \div h2),
          IF a.rn = 0 \/ q.n = 0 THEN 1
          ELSE (a.rd \div h2) * ((q.d * q.d) \div h1))

Mul(a0, b0) ==
  LET a == ToNumber(a0)
      b == ToNumber(b0)
  IN  IF a.k = "nan" \/ b.k = "nan" THEN NaN
      ELSE IF a.k = "inf" /\ b.k = "inf" THEN Inf(a.n * b.n)
      ELSE IF a.k = "inf" THEN (IF Sign(b) = 0 THEN NaN ELSE Inf(a.n * Sign(b)))
      ELSE IF b.k = "inf" THEN (IF Sign(a) = 0 THEN NaN ELSE Inf(b.n * Sign(a)))
      ELSE IF b.rn = 0 THEN MulQ(a, b)
      ELSE IF a.rn = 0 THEN MulQ(b, a)
      ELSE Unsupported

Div(a0, b0) ==
  LET a == ToNumber(a0)
      b == ToNumber(b0)
  IN  IF a.k = "nan" \/ b.k = "nan" THEN NaN
      ELSE IF b.k = "inf" THEN (IF a.k = "inf" THEN NaN ELSE Zero)
      ELSE IF Sign(b) = 0
        THEN (IF a.k = "inf" THEN a
              ELSE IF Sign(a) = 0 THEN NaN ELSE Inf(Sign(a)))
      ELSE IF a.k = "inf" THEN Inf(a.n * Sign(b))
      ELSE IF b.rn = 0 THEN MulQ(a, Rat(b.d, b.n))
      ELSE Unsupported

\* -1, 0 or 1 as a < b, a = b, a > b; neither is NaN.
Cmp(a, b) ==
  IF a = b THEN 0
  ELSE IF a.k = "inf" THEN a.n
  ELSE IF b.k = "inf" THEN -b.n
  ELSE Sign(Sub(a, b))

\* The relational operators: false as soon as an operand is NaN or undefined.
Comparable(a, b) == ToNumber(a).k # "nan" /\ ToNumber(b).k # "nan"
Lt(a, b) == Comparable(a, b) /\ Cmp(a, b) < 0
Gt(a, b) == Comparable(a, b) /\ Cmp(a, b) > 0
Le(a, b) == Comparable(a, b) /\ Cmp(a, b) <= 0
Ge(a, b) == Comparable(a, b) /\ Cmp(a, b) >= 0

\* a === b: undefined is not coerced.
StrictEq(a, b) ==
  IF a.k = "undef" \/ b.k = "undef" THEN a.k = b.k
  ELSE Comparable(a, b) /\ Cmp(a, b) = 0

MathMax(a0, b0) ==
  LET a == ToNumber(a0)
      b == ToNumber(b0)
  IN  IF a.k = "nan" \/ b.k = "nan" THEN NaN
      ELSE IF Cmp(a, b) >= 0 THEN a ELSE b

MathSqrt(a0) ==
  LET a == ToNumber(a0)
  IN  IF a.k = "nan" THEN NaN
      ELSE IF a.k = "inf" THEN (IF a.n > 0 THEN a ELSE NaN)
      ELSE IF Sign(a) < 0 THEN NaN
      ELSE IF a.rn # 0 THEN Unsupported
      ELSE IF IsSquare(a.n) /\ IsSquare(a.d) THEN Rat(ISqrt(a.n), ISqrt(a.d))
      ELSE Fin(0, 1, a.n, a.d)

\* Math.pow(a, 2)
MathPow2(a) == Mul(a, a)

----------------------------------------------------------------------------
(* Arrays: JavaScript indices start at 0, sequence indices at 1. *)

Max2(a, b) == IF a >= b THEN a ELSE b
Min2(a, b) == IF a <= b THEN a ELSE b

\* arr[i]: undefined outside the array.
At(arr, i) == IF 0 <= i /\ i < Len(arr) THEN arr[i + 1] ELSE Undefined

\* arr.slice(s, e)
Slice(arr, s, e) ==
  LET from == IF s < 0 THEN Max2(Len(arr) + s, 0) ELSE Min2(s, Len(arr))
      to   == IF e < 0 THEN Max2(Len(arr) + e, 0) ELSE Min2(e, Len(arr))
  IN  SubSeq(arr, from + 1, to)

\* Loops are run over an index range lo..hi-1, one step after the other in
\* index order; the range is halved, and the first half is computed before
\* the second starts, so that the evaluation stays shallow.
Then(first, rest) == IF first = first THEN rest ELSE rest

\* arr.reduce((a, b) => a + b, 0): the steps for the elements lo..hi-1.
RECURSIVE SumLoop(_, _, _, _)
SumLoop(arr, acc, lo, hi) ==
  IF hi <= lo THEN acc
  ELSE IF hi = lo + 1 THEN Add(acc, arr[lo + 1])
  ELSE LET mid == (lo + hi) \div 2
           left == SumLoop(arr, acc, lo, mid)
       IN  Then(left, SumLoop(arr, left, mid, hi))

Sum(arr) == SumLoop(arr, Zero, 0, Len(arr))

\* this.data.map(d => d.price), this.data.map(d => d.volume)
Prices(data) == [i \in 1..Len(data) |-> data[i].price]
Volumes(data) == [i \in 1..Len(data) |-> data[i].volume]

----------------------------------------------------------------------------
(* constructor: data.sort((a, b) => a.timestamp - b.timestamp).            *)
(* Array.prototype.sort is stable and sorts the array it is called on.     *)

\* The compare function with its operands swapped (a descending sort).
CompareTimestampSwapped(a, b) == b.timestamp - a.timestamp

\* The compare function (a, b) => a.timestamp - b.timestamp.
CompareTimestamp(a, b) == a.timestamp - b.timestamp

\* x goes after every element that does not compare greater than it.
InsertByTimestamp(sorted, x) ==
  LET pos == Cardinality({j \in 1..Len(sorted) : CompareTimestamp(sorted[j], x) <= 0})
  IN  SubSeq(sorted, 1, pos) \o <<x>> \o SubSeq(sorted, pos + 1, Len(sorted))

RECURSIVE SortLoop(_, _, _, _)
SortLoop(data, sorted, lo, hi) ==
  IF hi <= lo THEN sorted
  ELSE IF hi = lo + 1 THEN InsertByTimestamp(sorted, data[lo + 1])
  ELSE LET mid == (lo + hi) \div 2
           left == SortLoop(data, sorted, lo, mid)
       IN  Then(left, SortLoop(data, left, mid, hi))

SortByTimestamp(data) == SortLoop(data, <<>>, 0, Len(data))

----------------------------------------------------------------------------
(* Indicators *)

RSIPeriods == 14
EMAPeriods == 50
SMAPeriods == 50
MACDShortPeriod == 12
MACDLongPeriod == 26
MACDSignalPeriod == 9
BollingerPeriods == 20
BollingerStandardDeviation == 2
CrossShortPeriod == 50
CrossLongPeriod == 200

\* calculateSmoothedMovingAverage: the loop for i = lo..hi-1.
RECURSIVE SmoothedLoop(_, _, _, _, _)
SmoothedLoop(values, periods, smoothedMA, lo, hi) ==
  IF hi <= lo THEN smoothedMA
  ELSE IF hi = lo + 1
    THEN Append(smoothedMA,
                Div(Add(Mul(smoothedMA[Len(smoothedMA)], Num(periods - 1)),
                        values[lo + 1]),
                    Num(periods)))
  ELSE LET mid == (lo + hi) \div 2
           left == SmoothedLoop(values, periods, smoothedMA, lo, mid)
       IN  Then(left, SmoothedLoop(values, periods, left, mid, hi))

calculateSmoothedMovingAverage(values, periods) ==
  SmoothedLoop(values, periods,
               <<Div(Sum(Slice(values, 0, periods)), Num(periods))>>,
               periods, Len(values))

\* The length of the array it returns: the seed and one value per iteration.
SmoothedLength(values, periods) == 1 + Max2(Len(values) - periods, 0)

\* The value of one RSI point from the two smoothed averages.
RSIValue(ag, al) ==
  IF StrictEq(al, Zero) THEN Num(100)
  ELSE Sub(Num(100), Div(Num(100), Add(Num(1), Div(ag, al))))

Changes(prices) ==
  [i \in 1..Len(prices) |-> IF i > 1 THEN Sub(prices[i], prices[i - 1]) ELSE Zero]

Gains(changes) == [i \in 1..Len(changes) |-> MathMax(changes[i], Zero)]

\* The losses without Math.max(.., 0): a gain becomes a negative loss.
LossesNotClamped(changes) == [i \in 1..Len(changes) |-> Neg(changes[i])]

Losses(changes) == [i \in 1..Len(changes) |-> MathMax(Neg(changes[i]), Zero)]

\* avgGain.map((ag, i) => ...) runs over the indices of avgGain; an average
\* gain is read only where the average loss is not 0.
calculateRSI(data, periods) ==
  LET prices  == Prices(data)
      changes == Changes(prices)
      gains   == Gains(changes)
      losses  == Losses(changes)
      avgGain == calculateSmoothedMovingAverage(gains, periods)
      avgLoss == calculateSmoothedMovingAverage(losses, periods)
  IN  [i \in 1..SmoothedLength(gains, periods) |->
         RSIValue(avgGain[i], At(avgLoss, i - 1))]

\* The loop shared by calculateEMA and calculateExponentialMovingAverages.
RECURSIVE EMALoop(_, _, _, _, _)
EMALoop(prices, alpha, ema, lo, hi) ==
  IF hi <= lo THEN ema
  ELSE IF hi = lo + 1
    THEN Append(ema, Add(Mul(prices[lo + 1], alpha),
                         Mul(ema[Len(ema)], Sub(Num(1), alpha))))
  ELSE LET mid == (lo + hi) \div 2
           left == EMALoop(prices, alpha, ema, lo, mid)
       IN  Then(left, EMALoop(prices, alpha, left, mid, hi))

calculateSimpleMovingAverage(prices, periods) ==
  Div(Sum(Slice(prices, 0, periods)), Num(periods))

calculateEMA(data, periods) ==
  LET prices == Prices(data)
      alpha  == Div(Num(2), Num(periods + 1))
  IN  EMALoop(prices, alpha,
              <<calculateSimpleMovingAverage(Slice(prices, 0, periods), SMAPeriods)>>,
              periods, Len(prices))

calculateExponentialMovingAverages(prices, periods) ==
  LET alpha == Div(Num(2), Num(periods + 1))
  IN  EMALoop(prices, alpha,
              <<Div(Sum(Slice(prices, 0, periods)), Num(periods))>>,
              periods, Len(prices))

calculateMACD(data, shortPeriod, longPeriod, signalPeriod) ==
  LET prices   == Prices(data)
      shortEMA == calculateExponentialMovingAverages(prices, shortPeriod)
      longEMA  == calculateExponentialMovingAverages(prices, longPeriod)
      macdLine == [i \in 1..Len(shortEMA) |-> Sub(shortEMA[i], At(longEMA, i - 1))]
  IN  [macdLine |-> macdLine,
       signalLine |-> calculateExponentialMovingAverages(macdLine, signalPeriod)]

calculateMovingAverage(prices, periods) ==
  [j \in 1..Max2(Len(prices) - periods + 1, 0) |->
     Div(Sum(Slice(prices, j - 1, j - 1 + periods)), Num(periods))]

\* One element of standardDeviations: index i of prices.map.
StandardDeviationAt(prices, periods, i) ==
  LET subset   == Slice(prices, Max2(0, i - periods + 1), i + 1)
      mean     == Div(Sum(subset), Num(Len(subset)))
      variance == Div(Sum([x \in 1..Len(subset) |-> MathPow2(Sub(subset[x], mean))]),
                      Num(Len(subset)))
  IN  MathSqrt(variance)

calculateBollingerBands(data, periods, standardDeviation) ==
  LET prices == Prices(data)
      middleBand == calculateMovingAverage(prices, periods)
      standardDeviations ==
        [i \in 1..Len(prices) |-> StandardDeviationAt(prices, periods, i - 1)]
  IN  [middleBand |-> middleBand,
       upperBand |-> [i \in 1..Len(middleBand) |->
          Add(middleBand[i], Mul(At(standardDeviations, i - 1), Num(standardDeviation)))],
       lowerBand |-> [i \in 1..Len(middleBand) |->
          Sub(middleBand[i], Mul(At(standardDeviations, i - 1), Num(standardDeviation)))]]

RECURSIVE OBVLoop(_, _, _, _, _)
OBVLoop(prices, volumes, obv, lo, hi) ==
  IF hi <= lo THEN obv
  ELSE IF hi = lo + 1
    THEN Append(obv,
           IF Gt(prices[lo + 1], prices[lo]) THEN Add(obv[lo], volumes[lo + 1])
           ELSE IF Lt(prices[lo + 1], prices[lo]) THEN Sub(obv[lo], volumes[lo + 1])
           ELSE obv[lo])
  ELSE LET mid == (lo + hi) \div 2
           left == OBVLoop(prices, volumes, obv, lo, mid)
       IN  Then(left, OBVLoop(prices, volumes, left, mid, hi))

calculateOBV(data) ==
  OBVLoop(Prices(data), Volumes(data), <<At(Volumes(data), 0)>>, 1, Len(data))

\* The comparison with >= and <= on the latest point: equal EMAs count as
\* a crossing.
CrossFlagsNotStrict(shortTermLast, longTermLast) ==
  [goldenCross |-> Le(shortTermLast[1], longTermLast[1])
                   /\ Ge(shortTermLast[2], longTermLast[2]),
   deathCross  |-> Ge(shortTermLast[1], longTermLast[1])
                   /\ Le(shortTermLast[2], longTermLast[2])]

\* The comparison detectCrosses makes on the last two points of both EMAs.
CrossFlags(shortTermLast, longTermLast) ==
  [goldenCross |-> Le(shortTermLast[1], longTermLast[1])
                   /\ Gt(shortTermLast[2], longTermLast[2]),
   deathCross  |-> Ge(shortTermLast[1], longTermLast[1])
                   /\ Lt(shortTermLast[2], longTermLast[2])]

detectCrosses(data, shortPeriod, longPeriod) ==
  LET prices == Prices(data)
      shortTermEMA == calculateExponentialMovingAverages(prices, shortPeriod)
      longTermEMA  == calculateExponentialMovingAverages(prices, longPeriod)
  IN  IF Len(shortTermEMA) < 2 \/ Len(longTermEMA) < 2
        THEN [goldenCross |-> FALSE, deathCross |-> FALSE]
        ELSE CrossFlags(Slice(shortTermEMA, -2, Len(shortTermEMA)),
                        Slice(longTermEMA, -2, Len(longTermEMA)))

----------------------------------------------------------------------------
(* generateTradingSignal *)

BuyThreshold == 30
SellThreshold == -30

\* The rule table: the signed score and the reasons, from the latest values.
RuleTable(latestPrice, latestRSI, latestEMA, latestMACD, latestSignalLine, latestUpperBand, latestLowerBand, obvSlope, goldenCross, deathCross) ==
  LET rsi  == IF Lt(latestRSI, Num(30))
                THEN [r |-> "RSI indicates oversold condition", c |-> 20]
              ELSE IF Gt(latestRSI, Num(70))
                THEN [r |-> "RSI indicates overbought condition", c |-> -20]
              ELSE [r |-> "RSI indicates steady condition", c |-> 0]
      ema  == IF Gt(latestPrice, latestEMA)
                THEN [r |-> "Price is above EMA50, bullish trend", c |-> 15]
              ELSE [r |-> "Price is below EMA50, bearish trend", c |-> -15]
      macd == IF Gt(latestMACD, latestSignalLine)
                THEN [r |-> "MACD shows bullish momentum", c |-> 25]
              ELSE [r |-> "MACD shows bearish momentum", c |-> -25]
      bb   == IF Le(latestPrice, latestLowerBand)
                THEN [r |-> "Price near lower Bollinger Band, potential buy signal", c |-> 20]
              ELSE IF Ge(latestPrice, latestUpperBand)
                THEN [r |-> "Price near upper Bollinger Band, potential sell signal", c |-> -20]
              ELSE [r |-> "Bollinger Band indicates steady condition", c |-> 0]
      obv  == IF Gt(obvSlope, Zero)
                THEN [r |-> "Positive On-Balance Volume trend", c |-> 20]
              ELSE [r |-> "Negative On-Balance Volume trend", c |-> -20]
      gc   == IF goldenCross
                THEN [r |-> <<"Golden Cross detected: Short-term EMA crossing above long-term EMA">>, c |-> 30]
              ELSE [r |-> <<>>, c |-> 0]
      dc   == IF deathCross
                THEN [r |-> <<"Death Cross detected: Short-term EMA crossing below long-term EMA">>, c |-> -30]
              ELSE [r |-> <<>>, c |-> 0]
  IN  [confidence |-> rsi.c + ema.c + macd.c + bb.c + obv.c + gc.c + dc.c,
       reasons |-> <<rsi.r, ema.r, macd.r, bb.r, obv.r>> \o gc.r \o dc.r]

Recommendation(confidence) ==
  IF confidence < SellThreshold THEN "SELL"
  ELSE IF confidence > BuyThreshold THEN "BUY" ELSE "HOLD"

\* The magnitude without the clamp to [-100, 100].
NormalizeConfidenceNoClamp(confidence) == AbsI(confidence)

\* Math.abs(Math.min(Math.max(confidence, -100), 100))
NormalizeConfidence(confidence) == AbsI(Min2(Max2(confidence, -100), 100))

\* The record returned; score is the signed sum before clamping, kept for
\* the properties (the program returns only its clamped magnitude).
Synthesize(latestPrice, latestRSI, latestEMA, latestMACD, latestSignalLine, latestUpperBand, latestLowerBand, obvSlope, crosses) ==
  LET t == RuleTable(latestPrice, latestRSI, latestEMA, latestMACD, latestSignalLine,
                     latestUpperBand, latestLowerBand, obvSlope,
                     crosses.goldenCross, crosses.deathCross)
  IN  [currentPrice |-> latestPrice,
       recommendation |-> Recommendation(t.confidence),
       confidence |-> NormalizeConfidence(t.confidence),
       reasons |-> t.reasons,
       crossSignals |-> crosses,
       score |-> t.confidence]

\* this.data[this.data.length - 1].price reads a property of undefined when
\* the series is empty: a TypeError.
SignalThrows(data) == Len(data) = 0

generateTradingSignal(data) ==
  LET rsi  == calculateRSI(data, RSIPeriods)
      ema  == calculateEMA(data, EMAPeriods)
      macd == calculateMACD(data, MACDShortPeriod, MACDLongPeriod, MACDSignalPeriod)
      bollingerBands == calculateBollingerBands(data, BollingerPeriods,
                                                BollingerStandardDeviation)
      obv  == calculateOBV(data)
  IN  Synthesize(data[Len(data)].price,
                 At(rsi, Len(rsi) - 1),
                 At(ema, Len(ema) - 1),
                 At(macd.macdLine, Len(macd.macdLine) - 1),
                 At(macd.signalLine, Len(macd.signalLine) - 1),
                 At(bollingerBands.upperBand, Len(bollingerBands.upperBand) - 1),
                 At(bollingerBands.lowerBand, Len(bollingerBands.lowerBand) - 1),
                 Sub(At(obv, Len(obv) - 1), At(obv, Len(obv) - 2)),
                 detectCrosses(data, CrossShortPeriod, CrossLongPeriod))

getCrossAnalysis(data, shortPeriod, longPeriod) ==
  LET flags  == detectCrosses(data, shortPeriod, longPeriod)
      prices == Prices(data)
      shortTermEMA == calculateExponentialMovingAverages(prices, shortPeriod)
      longTermEMA  == calculateExponentialMovingAverages(prices, longPeriod)
  IN  [goldenCross |-> flags.goldenCross,
       deathCross |-> flags.deathCross,
       shortTermEMA |-> [current |-> At(shortTermEMA, Len(shortTermEMA) - 1),
                         previous |-> At(shortTermEMA, Len(shortTermEMA) - 2)],
       longTermEMA |-> [current |-> At(longTermEMA, Len(longTermEMA) - 1),
                        previous |-> At(longTermEMA, Len(longTermEMA) - 2)]]

----------------------------------------------------------------------------
(* analyzeToken(tokenData): new TradingStrategy, generateTradingSignal,     *)
(* getCrossAnalysis, one after the other.                                   *)

None == <<>>

Obs(t, p, v) == [timestamp |-> t, price |-> p, volume |-> v]

\* new TradingStrategy(data): sort() orders the array it is called on and
\* returns that same array, so this.data and the caller's list are one object.
Constructor ==
  /\ pc = "start"
  /\ callerData' = SortByTimestamp(callerData)
  /\ thisData' = callerData'
  /\ pc' = "constructed"
  /\ UNCHANGED <<input, signal, cross, args, out>>

\* strategy.generateTradingSignal(): returns the signal, or throws.
GenerateTradingSignal ==
  /\ pc = "constructed"
  /\ signal' = IF SignalThrows(thisData) THEN None ELSE generateTradingSignal(thisData)
  /\ pc' = IF SignalThrows(thisData) THEN "threw" ELSE "signalled"
  /\ UNCHANGED <<input, callerData, thisData, cross, args, out>>

\* strategy.getCrossAnalysis(), then analyzeToken returns both records.
GetCrossAnalysis ==
  /\ pc = "signalled"
  /\ cross' = getCrossAnalysis(thisData, CrossShortPeriod, CrossLongPeriod)
  /\ pc' = "returned"
  /\ UNCHANGED <<input, callerData, thisData, signal, args, out>>

Next == Constructor \/ GenerateTradingSignal \/ GetCrossAnalysis

\* Short observation lists in any order, timestamps repeated or not.
MaxLen == 3
Timestamps == {1, 2}
SmallPrices == {1, 2}
SmallVolumes == {1}
SmallObservations ==
  {Obs(t, Num(p), Num(v)) : t \in Timestamps, p \in SmallPrices, v \in SmallVolumes}
SeqsUpTo(S, n) == UNION {[1..m -> S] : m \in 0..n}

Start(data) ==
  /\ pc = "start"
  /\ input = data
  /\ callerData = data
  /\ thisData = None
  /\ signal = None
  /\ cross = None
  /\ args = None
  /\ out = None

Init == \E data \in SeqsUpTo(SmallObservations, MaxLen) : Start(data)

Spec == Init /\ [][Next]_vars

----------------------------------------------------------------------------
(* The scenario series: a rising ramp and constant prices, through the     *)
(* same call.                                                              *)

RampLen == 250
ConstLen == 200
ExtraLen == 2
RampVolumes == {1, 2, 7}
ConstPrices == {1, 2, 5}
ConstVolumes == {0, 1, 3}

\* 1.00, 1.01, 1.02, ...: n prices, one per timestamp, volume v throughout.
RampSeries(n, v) == [i \in 1..n |-> Obs(i, Rat(99 + i, 100), Num(v))]
ConstSeries(n, c, v) == [i \in 1..n |-> Obs(i, Num(c), Num(v))]

IsRamp(data) == \E v \in RampVolumes : data = RampSeries(RampLen, v)
IsConst(data) ==
  /\ Len(data) >= ConstLen
  /\ \A i \in 1..Len(data) : data[i].price = data[1].price

InitScenario ==
  \/ \E v \in RampVolumes : Start(RampSeries(RampLen, v))
  \/ \E n \in ConstLen..(ConstLen + ExtraLen), c \in ConstPrices, v \in ConstVolumes :
       Start(ConstSeries(n, c, v))

SpecScenario == InitScenario /\ [][Next]_vars

----------------------------------------------------------------------------
(* The rule table on its own: every outcome of every rule, from latest     *)
(* values on each side of each comparison.                                 *)

LatestValues ==
  [latestPrice : {Num(2)},
   latestRSI : {Num(20), Num(50), Num(80)},
   latestEMA : {Num(1), Num(2), Undefined},
   macd : {<<Num(1), Zero>>, <<Zero, Zero>>, <<NaN, NaN>>},
   bands : {<<Num(2), Num(4)>>, <<Zero, Num(2)>>, <<Num(1), Num(3)>>,
            <<Undefined, Undefined>>},
   obvSlope : {Num(1), Zero, Num(-1), NaN},
   shortTermLast : {<<Num(1), Num(1)>>, <<Num(1), Num(3)>>, <<Num(3), Num(1)>>},
   longTermLast : {<<Num(2), Num(2)>>}]

InitRules ==
  /\ pc = "latest"
  /\ args \in LatestValues
  /\ input = None
  /\ callerData = None
  /\ thisData = None
  /\ signal = None
  /\ cross = None
  /\ out = None

\* Lines 219-300 of generateTradingSignal on the latest values in args.
ApplyRules ==
  /\ pc = "latest"
  /\ out' = Synthesize(args.latestPrice, args.latestRSI, args.latestEMA,
                       args.macd[1], args.macd[2], args.bands[2], args.bands[1],
                       args.obvSlope,
                       CrossFlags(args.shortTermLast, args.longTermLast))
  /\ pc' = "ruled"
  /\ UNCHANGED <<input, callerData, thisData, signal, cross, args>>

SpecRules == InitRules /\ [][ApplyRules]_vars

----------------------------------------------------------------------------
(* The indicator routines on short series with short periods.              *)

MaxSeries == 4
MaxPeriod == 3
IndicatorPrices == {1, 2, 3}

\* A series in timestamp order with the given prices.
SeriesOf(prices) == [i \in 1..Len(prices) |-> Obs(i, Num(prices[i]), Num(1))]

InitIndicators ==
  /\ pc = "series"
  /\ \E prices \in SeqsUpTo(IndicatorPrices, MaxSeries) :
       /\ input = SeriesOf(prices)
       /\ callerData = input
       /\ thisData = input
  /\ \E periods \in 1..MaxPeriod : args = [periods |-> periods]
  /\ signal = None
  /\ cross = None
  /\ out = None

CalcEMA ==
  /\ pc = "series"
  /\ out' = [ema |-> calculateEMA(thisData, args.periods),
             emas |-> calculateExponentialMovingAverages(Prices(thisData), args.periods)]
  /\ pc' = "ema"
  /\ UNCHANGED <<input, callerData, thisData, signal, cross, args>>

CalcRSI ==
  /\ pc = "series"
  /\ out' = calculateRSI(thisData, args.periods)
  /\ pc' = "rsi"
  /\ UNCHANGED <<input, callerData, thisData, signal, cross, args>>

CalcMACD ==
  /\ pc = "series"
  /\ \E longPeriod \in (args.periods + 1)..(MaxPeriod + 1), signalPeriod \in 1..2 :
       out' = [longPeriod |-> longPeriod, signalPeriod |-> signalPeriod,
               macd |-> calculateMACD(thisData, args.periods, longPeriod, signalPeriod)]
  /\ pc' = "macd"
  /\ UNCHANGED <<input, callerData, thisData, signal, cross, args>>

CalcBollinger ==
  /\ pc = "series"
  /\ out' = calculateBollingerBands(thisData, args.periods, BollingerStandardDeviation)
  /\ pc' = "bollinger"
  /\ UNCHANGED <<input, callerData, thisData, signal, cross, args>>

NextIndicators == CalcEMA \/ CalcRSI \/ CalcMACD \/ CalcBollinger

SpecIndicators == InitIndicators /\ [][NextIndicators]_vars

----------------------------------------------------------------------------
(* Properties *)

Signalled == pc \in {"signalled", "returned"}
HasReason(sig, r) == \E i \in 1..Len(sig.reasons) : sig.reasons[i] = r

\* C1: whatever the rules find, the reported confidence lies in [0,100], and
\* the recommendation is BUY exactly when the signed score before clamping
\* is above 30, SELL exactly when it is below -30, and HOLD otherwise.
C1_ConfidenceAndRecommendation ==
  pc = "ruled" =>
    /\ out.confidence \in 0..100
    /\ (out.recommendation = "BUY") <=> (out.score > 30)
    /\ (out.recommendation = "SELL") <=> (out.score < -30)
    /\ (out.recommendation = "HOLD") <=> (out.score >= -30 /\ out.score <= 30)

\* Every bullish rule and the golden cross fire: the score 130 is clamped.
C1_Witness ==
  /\ pc = "ruled"
  /\ out.score = 130
  /\ out.recommendation = "BUY"
  /\ out.confidence = 100

\* C2: on the ramp 1.00, 1.01, ... of 250 points the MACD rule, the
\* price-above-EMA50 rule and the positive-OBV rule fire and the
\* recommendation is BUY.
C2_RampIsBuy ==
  (Signalled /\ IsRamp(input)) =>
    /\ HasReason(signal, "MACD shows bullish momentum")
    /\ HasReason(signal, "Price is above EMA50, bullish trend")
    /\ HasReason(signal, "Positive On-Balance Volume trend")
    /\ signal.recommendation = "BUY"

\* C3 as stated: a constant series of at least 200 points gives HOLD with no
\* cross, the score staying within [-30, 30].
C3_ConstantIsHold ==
  (Signalled /\ IsConst(input)) =>
    /\ signal.recommendation = "HOLD"
    /\ signal.score >= -30 /\ signal.score <= 30
    /\ ~signal.crossSignals.goldenCross
    /\ ~signal.crossSignals.deathCross

\* C3 as amended: a constant series of at least 200 points, its averages
\* computed without rounding, gives SELL with confidence 60 and no cross:
\* the RSI fallback 100 is overbought, the price is not above EMA50, the
\* MACD line is not above its signal line, the OBV slope is not positive,
\* and only the lower Bollinger band rule adds to the score.
C3_ConstantIsSell ==
  (Signalled /\ IsConst(input)) =>
    /\ signal.recommendation = "SELL"
    /\ signal.score = -60
    /\ signal.confidence = 60
    /\ signal.reasons = <<"RSI indicates overbought condition",
                          "Price is below EMA50, bearish trend",
                          "MACD shows bearish momentum",
                          "Price near lower Bollinger Band, potential buy signal",
                          "Negative On-Balance Volume trend">>
    /\ ~signal.crossSignals.goldenCross
    /\ ~signal.crossSignals.deathCross

\* A constant series longer than 200 points has been analysed.
C3_Witness ==
  /\ pc = "returned"
  /\ IsConst(input)
  /\ Len(input) > ConstLen
  /\ signal.recommendation = "SELL"

Permute(data, p) == [i \in 1..Len(data) |-> data[p[i]]]
Orderings(data) == {Permute(data, p) : p \in Permutations(1..Len(data))}
IsSortedByTimestamp(data) ==
  \A i \in 1..(Len(data) - 1) : data[i].timestamp <= data[i + 1].timestamp
Count(data, x) == Cardinality({i \in 1..Len(data) : data[i] = x})
SameObservations(a, b) ==
  /\ Len(a) = Len(b)
  /\ \A i \in 1..Len(a) : Count(a, a[i]) = Count(b, a[i])
TimestampsOf(data) == [i \in 1..Len(data) |-> data[i].timestamp]
TiesAreEqual(data) ==
  \A i, j \in 1..Len(data) : data[i].timestamp = data[j].timestamp => data[i] = data[j]

\* C4 as stated: the series held after construction is sorted by timestamp
\* and is the identical sequence for every ordering of the same list.
C4_SameForEveryOrdering ==
  pc # "start" =>
    /\ IsSortedByTimestamp(thisData)
    /\ \A other \in Orderings(input) : SortByTimestamp(other) = thisData

\* C4 as amended: the series held is sorted by timestamp; for every
\* ordering of the same list it holds the same observations with the same
\* sequence of timestamps, and it is the identical sequence when
\* observations that share a timestamp are equal.
C4_SameUpToTies ==
  pc # "start" =>
    /\ IsSortedByTimestamp(thisData)
    /\ SameObservations(thisData, input)
    /\ \A other \in Orderings(input) :
         /\ TimestampsOf(SortByTimestamp(other)) = TimestampsOf(thisData)
         /\ SameObservations(SortByTimestamp(other), thisData)
         /\ TiesAreEqual(input) => SortByTimestamp(other) = thisData

\* A list out of order, with a repeated timestamp, has been sorted.
C4_Witness ==
  /\ pc = "constructed"
  /\ Len(input) >= 3
  /\ ~IsSortedByTimestamp(input)
  /\ \E i, j \in 1..Len(input) : i # j /\ input[i].timestamp = input[j].timestamp
  /\ thisData # input

\* C5: analyzeToken raises no error, whatever the list, the empty list
\* included.
C5_NeverThrows == pc # "threw"

\* C6: for a series of n >= period prices both EMA routines return
\* n - period + 1 values, the first one the mean of the first `period` prices.
C6_EMAShape ==
  (pc = "ema" /\ Len(thisData) >= args.periods) =>
    \A e \in {out.ema, out.emas} :
      /\ Len(e) = Len(thisData) - args.periods + 1
      /\ e[1] = Div(Sum(SubSeq(Prices(thisData), 1, args.periods)), Num(args.periods))

AvgLossOf(data, periods) ==
  calculateSmoothedMovingAverage(Losses(Changes(Prices(data))), periods)

\* C7: for a series of more than `period` positive prices every RSI value
\* lies in [0,100], and is exactly 100 wherever the smoothed average loss
\* is exactly 0.
C7_RSIBounds ==
  (pc = "rsi" /\ Len(thisData) > args.periods) =>
    \A i \in 1..Len(out) :
      /\ Ge(out[i], Zero)
      /\ Le(out[i], Num(100))
      /\ AvgLossOf(thisData, args.periods)[i] = Zero => out[i] = Num(100)

\* An RSI series with a value strictly inside (0,100) and a value 100 where
\* the average loss is 0.
C7_Witness ==
  /\ pc = "rsi"
  /\ Len(thisData) > args.periods
  /\ \E i \in 1..Len(out) : Gt(out[i], Zero) /\ Lt(out[i], Num(100))
  /\ \E i \in 1..Len(out) :
       AvgLossOf(thisData, args.periods)[i] = Zero /\ out[i] = Num(100)

\* C8: the call leaves the caller's list as it was: same elements, same
\* order.
C8_CallerListUnchanged == pc # "start" => callerData = input

\* C9: macdLine holds, for every index where both EMAs exist, the short EMA
\* minus the long EMA at that same price index; the outputs of the two EMA
\* routines start longPeriod - shortPeriod indices apart.
C9_MACDAligned ==
  (pc = "macd" /\ Len(thisData) >= out.longPeriod) =>
    LET shortEMA == calculateExponentialMovingAverages(Prices(thisData), args.periods)
        longEMA  == calculateExponentialMovingAverages(Prices(thisData), out.longPeriod)
        offset   == out.longPeriod - args.periods
    IN  /\ Len(out.macd.macdLine) = Len(longEMA)
        /\ \A j \in 1..Len(longEMA) :
             out.macd.macdLine[j] = Sub(shortEMA[j + offset], longEMA[j])

MeanOf(window) == Div(Sum(window), Num(Len(window)))
PopulationStdDevOf(window) ==
  MathSqrt(Div(Sum([i \in 1..Len(window) |-> MathPow2(Sub(window[i], MeanOf(window)))]),
               Num(Len(window))))
LastPrices(data, periods) == SubSeq(Prices(data), Len(data) - periods + 1, Len(data))

\* C10: the latest upper and lower bands are the mean of the last `period`
\* prices plus and minus the multiplier times the population standard
\* deviation of those same prices.
C10_LatestBandsSameWindow ==
  (pc = "bollinger" /\ Len(thisData) >= args.periods) =>
    LET window == LastPrices(thisData, args.periods)
        spread == Mul(PopulationStdDevOf(window), Num(BollingerStandardDeviation))
    IN  /\ out.upperBand[Len(out.upperBand)] = Add(MeanOf(window), spread)
        /\ out.lowerBand[Len(out.lowerBand)] = Sub(MeanOf(window), spread)

====
